---- MODULE Spec2Model ----
(***************************************************************************)
(* ssvm_wasm_socket (src/src/lib.rs): TcpStream, TcpListener and Incoming  *)
(* over the wasi_snapshot_preview1 socket primitives.                      *)
(*                                                                         *)
(* The host is the environment: every primitive returns a status drawn     *)
(* from Statuses and fills its out-parameters.  Each library call is one   *)
(* action; the primitives it issued are recorded, in order, in last.calls. *)
(* Text is a sequence of one-character strings.                            *)
(***************************************************************************)
EXTENDS Integers, Sequences, FiniteSets

\* ------------------------------------------------------------- bounds
MaxOps == 3        \* library calls per run
MaxCands == 2      \* candidate addresses per connect / bind
MaxHandles == 2    \* handles the host hands out per run

\* ---------------------------------------------------- program constants
Backlog == 128     \* sock_listen(fd, 128)
Ipv4Sentinel == 4  \* if addr_type != 4
AddrSize == 4      \* WasiAddress { size: 4 } on connect / bind
PeerBufSize == 16  \* WasiAddress { size: 16 } on peer_addr

\* ------------------------------------------------- text and numbers
Digits == <<"0", "1", "2", "3", "4", "5", "6", "7", "8", "9">>

HexDigits == Digits \o <<"a", "b", "c", "d", "e", "f">>

IsDigit(c) == \E i \in 1..10 : Digits[i] = c

DigitVal(c) == (CHOOSE i \in 1..10 : Digits[i] = c) - 1

\* Display of an unsigned integer: decimal, no leading zeros.
RECURSIVE U2S(_)
U2S(n) == IF n < 10 THEN <<Digits[n + 1]>>
          ELSE U2S(n \div 10) \o <<Digits[(n % 10) + 1]>>

\* LowerHex of a u16: no leading zeros.
RECURSIVE HexStr(_)
HexStr(n) == IF n < 16 THEN <<HexDigits[n + 1]>>
             ELSE HexStr(n \div 16) \o <<HexDigits[(n % 16) + 1]>>

\* str::split(sep): the pieces between the separators, empty pieces kept.
RECURSIVE Split(_, _)
Split(s, sep) ==
    IF s = <<>> THEN << <<>> >>
    ELSE LET rest == Split(Tail(s), sep)
         IN  IF Head(s) = sep THEN << <<>> >> \o rest
             ELSE << <<Head(s)>> \o rest[1] >> \o Tail(rest)

\* The digits of s accumulated left to right; fails on a non-digit and on a
\* value above max.
RECURSIVE ParseDigits(_, _, _)
ParseDigits(s, acc, max) ==
    IF s = <<>> THEN [ok |-> TRUE, v |-> acc]
    ELSE IF ~IsDigit(Head(s)) THEN [ok |-> FALSE, v |-> 0]
    ELSE LET n == acc * 10 + DigitVal(Head(s))
         IN  IF n > max THEN [ok |-> FALSE, v |-> 0]
             ELSE ParseDigits(Tail(s), n, max)

\* str::parse::<u8>() / ::<u16>(): an optional leading '+', then at least one
\* digit, value within the type.
ParseUnsigned(s, max) ==
    IF s = <<>> THEN [ok |-> FALSE, v |-> 0]
    ELSE LET body == IF Head(s) = "+" THEN Tail(s) ELSE s
         IN  IF body = <<>> THEN [ok |-> FALSE, v |-> 0]
             ELSE ParseDigits(body, 0, max)

U8Max == 255

U16Max == 65535

U16Mod == 65536

\* ------------------------------------------------------- addresses
\* A SocketAddr is [family |-> "V4", ip |-> <<a, b, c, d>>, port |-> p] or
\* [family |-> "V6", ip |-> <<s1, ..., s8>>, port |-> p].

Ipv4ToString(ip) ==
    U2S(ip[1]) \o <<".">> \o U2S(ip[2]) \o <<".">> \o U2S(ip[3]) \o <<".">> \o U2S(ip[4])

RECURSIVE JoinHex(_, _, _)
JoinHex(seg, from, to) ==
    IF from > to THEN <<>>
    ELSE IF from = to THEN HexStr(seg[from])
    ELSE HexStr(seg[from]) \o <<":">> \o JoinHex(seg, from + 1, to)

\* Length of the run of zero segments that starts at i.
RECURSIVE ZeroRun(_, _)
ZeroRun(seg, i) ==
    IF i > Len(seg) \/ seg[i] # 0 THEN 0 ELSE 1 + ZeroRun(seg, i + 1)

\* The start of the first longest run of zero segments.
FirstLongestZeroRun(seg) ==
    CHOOSE i \in 1..8 :
        /\ \A j \in 1..8 : ZeroRun(seg, j) <= ZeroRun(seg, i)
        /\ \A j \in 1..(i - 1) : ZeroRun(seg, j) < ZeroRun(seg, i)

Ipv6Compressed(seg, best, n) ==
    IF n > 1
    THEN JoinHex(seg, 1, best - 1) \o <<":", ":">> \o JoinHex(seg, best + n, 8)
    ELSE JoinHex(seg, 1, 8)

Ipv6From(seg, best) == Ipv6Compressed(seg, best, ZeroRun(seg, best))

\* Display of an Ipv6Addr: the IPv4-mapped form, else the first longest run of
\* two or more zero segments written as "::".
Ipv6ToString(seg) ==
    IF (\A i \in 1..5 : seg[i] = 0) /\ seg[6] = U16Max
    THEN <<":", ":", "f", "f", "f", "f", ":">>
         \o Ipv4ToString(<<seg[7] \div 256, seg[7] % 256, seg[8] \div 256, seg[8] % 256>>)
    ELSE Ipv6From(seg, FirstLongestZeroRun(seg))

\* addrs.to_string()
to_string(addrs) ==
    IF addrs.family = "V4"
    THEN Ipv4ToString(addrs.ip) \o <<":">> \o U2S(addrs.port)
    ELSE <<"[">> \o Ipv6ToString(addrs.ip) \o <<"]", ":">> \o U2S(addrs.port)

\* AddressFamily::from(addrs) as u8
FamilyU8(addrs) == IF addrs.family = "V4" THEN 0 ELSE 1

\* SocketType::Stream as u8
StreamU8 == 1

\* Shutdown as u8
ShutdownU8(how) == CASE how = "Read" -> 0 [] how = "Write" -> 1 [] how = "Both" -> 2

\* ------------------------------------------------ address translation
\* RawWithPort with the port kept in 8 bits.
RawWithPortNarrow(buf, port) ==
    IF ~port.ok THEN [ok |-> FALSE]
    ELSE [ok |-> TRUE, buf |-> buf, size |-> AddrSize, port |-> port.v % 256]

\* addrp[1].parse::<u16>().unwrap(), then the WasiAddress { buf, size: 4 } and
\* the port handed to the host.
RawWithPort(buf, port) ==
    IF ~port.ok THEN [ok |-> FALSE]
    ELSE [ok |-> TRUE, buf |-> buf, size |-> AddrSize, port |-> port.v]

\* addrp[0].split('.').map(|x| x.parse::<u8>().unwrap()).collect()
RawFromOctets(vaddr, addrp) ==
    IF \E i \in DOMAIN vaddr : ~vaddr[i].ok THEN [ok |-> FALSE]
    ELSE IF Len(addrp) < 2 THEN [ok |-> FALSE]
    ELSE RawWithPort([i \in DOMAIN vaddr |-> vaddr[i].v], ParseUnsigned(addrp[2], U16Max))

ParseOctets(toks) == [i \in 1..Len(toks) |-> ParseUnsigned(toks[i], U8Max)]

RawFromText(addrp) == RawFromOctets(ParseOctets(Split(addrp[1], ".")), addrp)

\* What connect and bind hand to the host for one candidate: the text of the
\* address split on ':' and '.', every token parsed with unwrap(); ok is FALSE
\* when an unwrap() panics.
SerialiseAddr(addrs) == RawFromText(Split(to_string(addrs), ":"))

\* ReconstructAddr that takes every address type the host wrote for IPv4.
ReconstructAddrLax(buf, addr_type, port) ==
    IF addr_type = 0
    THEN [kind |-> "Err", err |-> "unsupported address type"]
    ELSE [kind |-> "Ok",
          addr |-> [family |-> "V4",
                    ip |-> <<buf[1], buf[2], buf[3], buf[4]>>,
                    port |-> port % U16Mod]]

\* What peer_addr makes of the buffer, address type and port the host left:
\*   if addr_type != 4 { Err("unsupported address type") }
\*   SocketAddr::new(Ipv4Addr::new(addr[0..3]), port as u16)
ReconstructAddr(buf, addr_type, port) ==
    IF addr_type # Ipv4Sentinel
    THEN [kind |-> "Err", err |-> "unsupported address type"]
    ELSE [kind |-> "Ok",
          addr |-> [family |-> "V4",
                    ip |-> <<buf[1], buf[2], buf[3], buf[4]>>,
                    port |-> port % U16Mod]]

\* ------------------------------------------------------------ host
\* One primitive call as the host saw it: the handle passed in (fd), the other
\* arguments (a), the status returned and the handle written back (out).
Call(prim, fd, a, status, out) ==
    [prim |-> prim, fd |-> fd, a |-> a, status |-> status, out |-> out]

Statuses == {0, 8, 61}

\* The host's set of open handles after one primitive call.
HostStep(open, c) ==
    CASE c.prim \in {"sock_open", "sock_accept"} ->
             IF c.status = 0 THEN open \cup {c.out} ELSE open
      [] c.prim = "sock_close" -> open \ {c.fd}
      [] OTHER -> open

RECURSIVE HostApply(_, _)
HostApply(open, calls) ==
    IF calls = <<>> THEN open
    ELSE HostApply(HostStep(open, Head(calls)), Tail(calls))

\* Handles the host handed out during calls.
RECURSIVE Allocated(_)
Allocated(calls) ==
    IF calls = <<>> THEN 0
    ELSE (IF Head(calls).prim \in {"sock_open", "sock_accept"} /\ Head(calls).status = 0
          THEN 1 ELSE 0) + Allocated(Tail(calls))

\* ------------------------------------------------------- TcpStream
\* ConnectRaw that gives the candidate up when its text does not parse.
ConnectRawSkipping(raw, c1, hr) ==
    IF ~raw.ok THEN [kind |-> "None", calls |-> <<c1>>]
    ELSE [kind |-> "Some",
          v |-> [fd |-> c1.out],
          calls |-> <<c1, Call("sock_connect", c1.out, <<raw.buf, raw.size, raw.port>>,
                               hr.conn, 0)>>]

\* The rest of connect's closure once sock_open (c1) has returned.
ConnectRaw(raw, c1, hr) ==
    IF ~raw.ok THEN [kind |-> "Panic", calls |-> <<c1>>]
    ELSE [kind |-> "Some",
          v |-> [fd |-> c1.out],
          calls |-> <<c1, Call("sock_connect", c1.out, <<raw.buf, raw.size, raw.port>>,
                               hr.conn, 0)>>]

\* ConnectCandidate that gives the candidate up when the host rejects it.
ConnectCandidateChecked(addrs, hr, fresh) ==
    IF hr.open # 0
    THEN [kind |-> "None",
          calls |-> <<Call("sock_open", 0, <<FamilyU8(addrs), StreamU8>>, hr.open, 0)>>]
    ELSE IF hr.conn # 0
    THEN [kind |-> "None",
          calls |-> ConnectRaw(SerialiseAddr(addrs),
                               Call("sock_open", 0, <<FamilyU8(addrs), StreamU8>>, 0, fresh),
                               hr).calls]
    ELSE ConnectRaw(SerialiseAddr(addrs),
                    Call("sock_open", 0, <<FamilyU8(addrs), StreamU8>>, 0, fresh),
                    hr)

\* The closure connect passes to find_map, for one candidate.  hr is what the
\* host answers for this candidate, fresh the handle it hands out when
\* sock_open succeeds; fd starts at 0 and stays 0 when sock_open fails.
ConnectCandidate(addrs, hr, fresh) ==
    ConnectRaw(SerialiseAddr(addrs),
               Call("sock_open", 0, <<FamilyU8(addrs), StreamU8>>, hr.open,
                    IF hr.open = 0 THEN fresh ELSE 0),
               hr)

\* find_map over the candidates from position i on: the first Some ends it, a
\* panic unwinds out of it, None moves on to the next candidate.
RECURSIVE ConnectFindMap(_, _, _, _, _)
ConnectFound(list, plan, i, alloc, calls, r) ==
    IF r.kind = "None"
    THEN ConnectFindMap(list, plan, i + 1, alloc, calls \o r.calls)
    ELSE [r EXCEPT !.calls = calls \o r.calls]

ConnectFindMap(list, plan, i, alloc, calls) ==
    IF i > Len(list) THEN [kind |-> "None", calls |-> calls]
    ELSE ConnectFound(list, plan, i, alloc, calls,
                      ConnectCandidate(list[i], plan[i], alloc + Allocated(calls) + 1))

ConnectResult(r) ==
    CASE r.kind = "Some" -> [result |-> [kind |-> "Ok", stream |-> r.v], calls |-> r.calls]
      [] r.kind = "Panic" -> [result |-> [kind |-> "Panic"], calls |-> r.calls]
      [] OTHER -> [result |-> [kind |-> "Err", err |-> "last_os_error"], calls |-> r.calls]

\* TcpStream::connect.  res is addrs.to_socket_addrs().
connect(res, plan, alloc) ==
    IF ~res.ok THEN [result |-> [kind |-> "Err", err |-> "to_socket_addrs"], calls |-> <<>>]
    ELSE ConnectResult(ConnectFindMap(res.list, plan, 1, alloc, <<>>))

\* TcpStream::shutdown
shutdown(self, how, status) ==
    [result |-> [kind |-> "Ok"],
     calls |-> <<Call("sock_shutdown", self.fd, <<ShutdownU8(how)>>, status, 0)>>]

\* TcpStream::peer_addr.  pr is the host's answer: its status and what it
\* wrote.  The 4 bytes read back are pr.bytes when the host wrote the buffer
\* and otherwise pr.garbage (the Vec has capacity 4 and no initialised
\* element); addr_type and port keep their initial 0 when not written.
peer_addr(self, pr) ==
    LET buf == IF pr.wrote THEN pr.bytes ELSE pr.garbage
        addr_type == IF pr.setType THEN pr.type ELSE 0
        port == IF pr.setPort THEN pr.port ELSE 0
    IN  [result |-> ReconstructAddr(buf, addr_type, port),
         calls |-> <<Call("sock_getpeeraddr", self.fd,
                          <<PeerBufSize, buf, addr_type, port>>, pr.status, 0)>>]

\* Read for TcpStream.  rr.len is the recv_len the host wrote (0 when it
\* wrote none).
read(self, buflen, rr) ==
    [result |-> [kind |-> "Ok", n |-> rr.len],
     calls |-> <<Call("sock_recv", self.fd, <<buflen, 1, 0, rr.len>>, rr.status, 0)>>]

\* Write for TcpStream::write.  sr.len is the send_len the host wrote.
write(self, buflen, sr) ==
    [result |-> [kind |-> "Ok", n |-> sr.len],
     calls |-> <<Call("sock_send", self.fd, <<buflen, 1, 0, sr.len>>, sr.status, 0)>>]

\* Write for TcpStream::flush
flush(self) == [result |-> [kind |-> "Ok"], calls |-> <<>>]

\* ----------------------------------------------------- TcpListener
\* BindRaw that listens before it binds.
BindRawListenFirst(raw, c1, hr) ==
    IF ~raw.ok THEN [kind |-> "Panic", calls |-> <<c1>>]
    ELSE [kind |-> "Some",
          v |-> [fd |-> c1.out,
                 address |-> [buf |-> "vaddr", size |-> raw.size],
                 port |-> raw.port],
          calls |-> <<c1,
                      Call("sock_listen", c1.out, <<Backlog>>, hr.listen, 0),
                      Call("sock_bind", c1.out, <<raw.buf, raw.size, raw.port>>, hr.bind, 0)>>]

\* The rest of bind's closure once sock_open (c1) has returned.  The address
\* the listener records points at vaddr, which the closure frees on return.
BindRaw(raw, c1, hr) ==
    IF ~raw.ok THEN [kind |-> "Panic", calls |-> <<c1>>]
    ELSE [kind |-> "Some",
          v |-> [fd |-> c1.out,
                 address |-> [buf |-> "vaddr", size |-> raw.size],
                 port |-> raw.port],
          calls |-> <<c1,
                      Call("sock_bind", c1.out, <<raw.buf, raw.size, raw.port>>, hr.bind, 0),
                      Call("sock_listen", c1.out, <<Backlog>>, hr.listen, 0)>>]

\* The closure bind passes to find_map, for one candidate.
BindCandidate(addrs, hr, fresh) ==
    BindRaw(SerialiseAddr(addrs),
            Call("sock_open", 0, <<FamilyU8(addrs), StreamU8>>, hr.open,
                 IF hr.open = 0 THEN fresh ELSE 0),
            hr)

RECURSIVE BindFindMap(_, _, _, _, _)
BindFound(list, plan, i, alloc, calls, r) ==
    IF r.kind = "None"
    THEN BindFindMap(list, plan, i + 1, alloc, calls \o r.calls)
    ELSE [r EXCEPT !.calls = calls \o r.calls]

BindFindMap(list, plan, i, alloc, calls) ==
    IF i > Len(list) THEN [kind |-> "None", calls |-> calls]
    ELSE BindFound(list, plan, i, alloc, calls,
                   BindCandidate(list[i], plan[i], alloc + Allocated(calls) + 1))

BindResult(r) ==
    CASE r.kind = "Some" -> [result |-> [kind |-> "Ok", listener |-> r.v], calls |-> r.calls]
      [] r.kind = "Panic" -> [result |-> [kind |-> "Panic"], calls |-> r.calls]
      [] OTHER -> [result |-> [kind |-> "Err", err |-> "last_os_error"], calls |-> r.calls]

\* TcpListener::bind
bind(res, plan, alloc) ==
    IF ~res.ok THEN [result |-> [kind |-> "Err", err |-> "to_socket_addrs"], calls |-> <<>>]
    ELSE BindResult(BindFindMap(res.list, plan, 1, alloc, <<>>))

\* AcceptResult that closes the accepted handle when peer_addr fails.
AcceptResultClosing(tcpstream, c1, p) ==
    IF p.result.kind = "Err"
    THEN [result |-> p.result,
          calls |-> <<c1>> \o p.calls \o <<Call("sock_close", tcpstream.fd, <<>>, 0, 0)>>]
    ELSE [result |-> [kind |-> "Ok", stream |-> tcpstream, addr |-> p.result.addr],
          calls |-> <<c1>> \o p.calls]

\* accept once sock_accept (c1) and the new stream's peer_addr (p) returned:
\*   let peer_addr = tcpstream.peer_addr()?;  Ok((tcpstream, peer_addr))
AcceptResult(tcpstream, c1, p) ==
    IF p.result.kind = "Err"
    THEN [result |-> p.result, calls |-> <<c1>> \o p.calls]
    ELSE [result |-> [kind |-> "Ok", stream |-> tcpstream, addr |-> p.result.addr],
          calls |-> <<c1>> \o p.calls]

AcceptStream(tcpstream, c1, pr) == AcceptResult(tcpstream, c1, peer_addr(tcpstream, pr))

AcceptCall(c1, pr) == AcceptStream([fd |-> c1.out], c1, pr)

\* TcpListener::accept.  ar.status is sock_accept's status; fd starts at 0 and
\* is the fresh handle when the host accepted.
accept(self, ar, pr, fresh) ==
    AcceptCall(Call("sock_accept", self.fd, <<>>, ar.status,
                    IF ar.status = 0 THEN fresh ELSE 0),
               pr)

\* SomeStream that ends the iteration at the first error.
SomeStreamUntilErr(r) ==
    [result |-> IF r.result.kind = "Ok"
                THEN [kind |-> "Some", v |-> [kind |-> "Ok", stream |-> r.result.stream]]
                ELSE [kind |-> "None"],
     calls |-> r.calls]

\* Some(r.map(|s| s.0))
SomeStream(r) ==
    [result |-> [kind |-> "Some",
                 v |-> IF r.result.kind = "Ok"
                       THEN [kind |-> "Ok", stream |-> r.result.stream]
                       ELSE r.result],
     calls |-> r.calls]

\* Iterator for Incoming: next
IncomingNext(cur, ar, pr, fresh) == SomeStream(accept(cur.listener, ar, pr, fresh))

\* ------------------------------------------------------- inputs
V4Candidates ==
    {[family |-> "V4", ip |-> <<127, 0, 0, 1>>, port |-> 8080],
     [family |-> "V4", ip |-> <<10, 0, 0, 255>>, port |-> 80]}

V6Candidates ==
    {[family |-> "V6", ip |-> <<0, 0, 0, 0, 0, 0, 0, 1>>, port |-> 8080]}

Candidates == V4Candidates \cup V6Candidates

RECURSIVE ListsUpTo(_)
ListsUpTo(n) ==
    IF n = 0 THEN {<<>>}
    ELSE LET shorter == ListsUpTo(n - 1)
         IN  shorter \cup {Append(l, c) : l \in {x \in shorter : Len(x) = n - 1},
                                           c \in Candidates}

\* addrs.to_socket_addrs(): an error, or the candidates in order.
Resolutions ==
    {[ok |-> FALSE, list |-> <<>>]} \cup {[ok |-> TRUE, list |-> l] : l \in ListsUpTo(MaxCands)}

\* What the host answers for a candidate.  The first candidate's answer takes
\* every combination of statuses; for a later one the host either accepts
\* every call or rejects every call.
CandStatuses == {0, 61}

ConnectAnswers(i) ==
    IF i = 1 THEN [open : CandStatuses, conn : CandStatuses]
    ELSE {[open |-> st, conn |-> st] : st \in CandStatuses}

BindAnswers(i) ==
    IF i = 1 THEN [open : CandStatuses, bind : CandStatuses, listen : CandStatuses]
    ELSE {[open |-> st, bind |-> st, listen |-> st] : st \in CandStatuses}

RECURSIVE ConnectPlans(_)
ConnectPlans(n) ==
    IF n = 0 THEN {<<>>}
    ELSE {Append(p, a) : p \in ConnectPlans(n - 1), a \in ConnectAnswers(n)}

RECURSIVE BindPlans(_)
BindPlans(n) ==
    IF n = 0 THEN {<<>>}
    ELSE {Append(p, a) : p \in BindPlans(n - 1), a \in BindAnswers(n)}

AcceptAnswers == [status : CandStatuses]

\* sock_getpeeraddr: any status; the buffer written or left as allocated; the
\* address type and the port written or left at 0.
PeerAnswers ==
    {[status |-> st, wrote |-> TRUE, bytes |-> <<10, 0, 0, 255>>, garbage |-> <<0, 0, 0, 0>>,
      setType |-> t # 0, type |-> t, setPort |-> TRUE, port |-> pt] :
        st \in CandStatuses, t \in {0, 4, 6}, pt \in {8080, 65616}}
    \cup
    {[status |-> st, wrote |-> FALSE, bytes |-> <<0, 0, 0, 0>>,
      garbage |-> <<222, 173, 190, 239>>,
      setType |-> t # 0, type |-> t, setPort |-> FALSE, port |-> 0] :
        st \in CandStatuses, t \in {0, 4, 6}}

BufLens == {0, 2}

\* sock_recv / sock_send: on success a length up to the buffer's, on failure
\* the length cell left at 0.
IoAnswers(buflen) ==
    {[status |-> 0, len |-> n] : n \in 0..buflen}
    \cup {[status |-> st, len |-> 0] : st \in Statuses \ {0}}

Hows == {"Read", "Write", "Both"}

\* ------------------------------------------------------------ state
VARIABLES
    streams,     \* the TcpStream values the caller holds
    listeners,   \* the TcpListener values the caller holds
    cursor,      \* the Incoming the caller iterates
    nextCalls,   \* next() calls on cursor
    yielded,     \* items next() returned on cursor
    yieldedErr,  \* of these, the Err items
    hostOpen,    \* handles the host holds open
    alloc,       \* handles the host has handed out
    last,        \* the last library call: what it was given, did and returned
    ops,         \* library calls so far
    panicked,    \* a call panicked: the program is gone
    rtPc, rtIn, rtRaw, rtOut   \* the address round trip

vars == <<streams, listeners, cursor, nextCalls, yielded, yieldedErr, hostOpen,
          alloc, last, ops, panicked, rtPc, rtIn, rtRaw, rtOut>>

rtVars == <<rtPc, rtIn, rtRaw, rtOut>>

NoCursor == [active |-> FALSE]

NoCall == [op |-> "none", calls |-> <<>>]

Op(op, self, arg, plan, r) ==
    [op |-> op, self |-> self, arg |-> arg, plan |-> plan,
     calls |-> r.calls, result |-> r.result]

InitProgram ==
    /\ streams = {}
    /\ listeners = {}
    /\ cursor = NoCursor
    /\ nextCalls = 0
    /\ yielded = 0
    /\ yieldedErr = 0
    /\ hostOpen = {}
    /\ alloc = 0
    /\ last = NoCall
    /\ ops = 0
    /\ panicked = FALSE

Init ==
    /\ InitProgram
    /\ rtPc = "off"
    /\ rtIn = <<>>
    /\ rtRaw = <<>>
    /\ rtOut = <<>>

\* The caller is between two library calls.
CanCall ==
    /\ ~panicked
    /\ last = NoCall
    /\ ops < MaxOps
    /\ alloc < MaxHandles
    /\ rtPc = "off"

\* The streams and listeners a call hands to the caller.
ReturnedStreams(rec) ==
    CASE rec.op \in {"connect", "accept"} /\ rec.result.kind = "Ok" -> {rec.result.stream}
      [] rec.op = "next" /\ rec.result.kind = "Some" ->
             IF rec.result.v.kind = "Ok" THEN {rec.result.v.stream} ELSE {}
      [] OTHER -> {}

ReturnedListeners(rec) ==
    IF rec.op = "bind" /\ rec.result.kind = "Ok" THEN {rec.result.listener} ELSE {}

\* What a library call leaves behind: the host's handles, what the caller
\* holds, and the record of the call.
Called(rec) ==
    /\ last' = rec
    /\ ops' = ops + 1
    /\ hostOpen' = HostApply(hostOpen, rec.calls)
    /\ alloc' = alloc + Allocated(rec.calls)
    /\ panicked' = (rec.result.kind = "Panic")
    /\ streams' = streams \cup ReturnedStreams(rec)
    /\ listeners' = listeners \cup ReturnedListeners(rec)
    /\ nextCalls' = IF rec.op = "next" THEN nextCalls + 1 ELSE nextCalls
    /\ yielded' = IF rec.op = "next" /\ rec.result.kind = "Some"
                  THEN yielded + 1 ELSE yielded
    /\ yieldedErr' = IF rec.op = "next" /\ rec.result.kind = "Some"
                        /\ rec.result.v.kind = "Err"
                     THEN yieldedErr + 1 ELSE yieldedErr
    /\ UNCHANGED cursor
    /\ UNCHANGED rtVars

Connect ==
    /\ CanCall
    /\ \E res \in Resolutions : \E plan \in ConnectPlans(Len(res.list)) :
         Called(Op("connect", 0, res, plan, connect(res, plan, alloc)))

Bind ==
    /\ CanCall
    /\ \E res \in Resolutions : \E plan \in BindPlans(Len(res.list)) :
         Called(Op("bind", 0, res, plan, bind(res, plan, alloc)))

Accept ==
    /\ CanCall
    /\ \E l \in listeners : \E ar \in AcceptAnswers : \E pr \in PeerAnswers :
         Called(Op("accept", l, <<>>, <<ar, pr>>, accept(l, ar, pr, alloc + 1)))

\* TcpListener::incoming: a cursor borrowing the listener; no host call.
Incoming ==
    /\ ~panicked /\ last = NoCall /\ rtPc = "off"
    /\ ~cursor.active
    /\ \E l \in listeners : cursor' = [active |-> TRUE, listener |-> l]
    /\ nextCalls' = 0
    /\ yielded' = 0
    /\ yieldedErr' = 0
    /\ UNCHANGED <<streams, listeners, hostOpen, alloc, last, ops, panicked>>
    /\ UNCHANGED rtVars

NextItem ==
    /\ CanCall
    /\ cursor.active
    /\ \E ar \in AcceptAnswers : \E pr \in PeerAnswers :
         Called(Op("next", cursor, <<>>, <<ar, pr>>, IncomingNext(cursor, ar, pr, alloc + 1)))

Read ==
    /\ CanCall
    /\ \E s \in streams : \E n \in BufLens : \E rr \in IoAnswers(n) :
         Called(Op("read", s, n, rr, read(s, n, rr)))

Write ==
    /\ CanCall
    /\ \E s \in streams : \E n \in BufLens : \E sr \in IoAnswers(n) :
         Called(Op("write", s, n, sr, write(s, n, sr)))

Flush ==
    /\ CanCall
    /\ \E s \in streams : Called(Op("flush", s, <<>>, <<>>, flush(s)))

Shutdown ==
    /\ CanCall
    /\ \E s \in streams : \E how \in Hows : \E st \in Statuses :
         Called(Op("shutdown", s, how, st, shutdown(s, how, st)))

PeerAddr ==
    /\ CanCall
    /\ \E s \in streams : \E pr \in PeerAnswers :
         Called(Op("peer_addr", s, <<>>, pr, peer_addr(s, pr)))

\* The caller takes the value the call returned and goes on.
Return ==
    /\ ~panicked
    /\ last # NoCall
    /\ last' = NoCall
    /\ UNCHANGED <<streams, listeners, cursor, nextCalls, yielded, yieldedErr,
                   hostOpen, alloc, ops, panicked>>
    /\ UNCHANGED rtVars

Next ==
    \/ Return
    \/ Connect
    \/ Bind
    \/ Accept
    \/ Incoming
    \/ NextItem
    \/ Read
    \/ Write
    \/ Flush
    \/ Shutdown
    \/ PeerAddr

Spec == Init /\ [][Next]_vars

\* ------------------------------------------- the address round trip
RtOctets == {0, 7, 10, 127, 255}

RtPorts == {0, 80, 8080, 65535}

InitAddr ==
    /\ InitProgram
    /\ rtPc = "start"
    /\ rtIn \in {[family |-> "V4", ip |-> <<a, b, c, d>>, port |-> p] :
                    a \in RtOctets, b \in RtOctets, c \in RtOctets, d \in RtOctets,
                    p \in RtPorts}
    /\ rtRaw = <<>>
    /\ rtOut = <<>>

\* The address as connect and bind hand it to the host.
RtSerialise ==
    /\ rtPc = "start"
    /\ rtRaw' = SerialiseAddr(rtIn)
    /\ rtPc' = "raw"
    /\ UNCHANGED <<streams, listeners, cursor, nextCalls, yielded, yieldedErr,
                   hostOpen, alloc, last, ops, panicked, rtIn, rtOut>>

\* The same buffer and port read back as peer_addr reads them, the host having
\* set the address type to the IPv4 sentinel.
RtReconstruct ==
    /\ rtPc = "raw"
    /\ rtRaw.ok
    /\ rtOut' = ReconstructAddr(rtRaw.buf, Ipv4Sentinel, rtRaw.port)
    /\ rtPc' = "done"
    /\ UNCHANGED <<streams, listeners, cursor, nextCalls, yielded, yieldedErr,
                   hostOpen, alloc, last, ops, panicked, rtIn, rtRaw>>

NextAddr == RtSerialise \/ RtReconstruct

SpecAddr == InitAddr /\ [][NextAddr]_vars

\* =============================================================== claims
AllV4(list) == \A i \in DOMAIN list : list[i].family = "V4"

Prims(calls) == [i \in DOMAIN calls |-> calls[i].prim]

\* ---------------------------------------------------------------- C1
\* C1: whenever sock_accept returns a nonzero status, accept returns an error
\* and hands no TcpStream to the caller, whatever sock_getpeeraddr reports.
C1_AcceptFailsOnStatus ==
    last.op = "accept" /\ last.calls[1].status # 0 =>
        /\ last.result.kind = "Err"
        /\ ReturnedStreams(last) = {}

\* ---------------------------------------------------------------- C2
\* C2: read, write and shutdown call their primitive exactly once; a nonzero
\* status comes back as an error carrying that status, never Ok; on status 0
\* read and write return exactly the length the host reported.
C2_StatusPropagated ==
    last.op \in {"read", "write", "shutdown"} =>
        /\ Len(last.calls) = 1
        /\ (last.calls[1].status # 0 =>
               last.result.kind = "Err" /\ last.result.err = last.calls[1].status)
        /\ (last.calls[1].status = 0 /\ last.op \in {"read", "write"} =>
               last.result = [kind |-> "Ok", n |-> last.plan.len])

\* ---------------------------------------------------------------- C3
\* C3: peer_addr returns the error "unsupported address type" for every address
\* type other than 4 (6, and the 0 left when the host wrote none), and for 4 it
\* returns Ok with the first 4 bytes of the buffer and the port cut to 16 bits.
C3_PeerAddrType ==
    last.op = "peer_addr" =>
        LET pr == last.plan
            type == IF pr.setType THEN pr.type ELSE 0
            buf == IF pr.wrote THEN pr.bytes ELSE pr.garbage
            port == IF pr.setPort THEN pr.port ELSE 0
        IN  IF type # 4
            THEN last.result = [kind |-> "Err", err |-> "unsupported address type"]
            ELSE last.result = [kind |-> "Ok",
                                addr |-> [family |-> "V4", ip |-> SubSeq(buf, 1, 4),
                                          port |-> port % 65536]]

\* The host succeeded and reported address type 6: peer_addr failed.
C3_Witness ==
    /\ last.op = "peer_addr"
    /\ last.plan.status = 0 /\ last.plan.wrote
    /\ last.plan.setType /\ last.plan.type = 6
    /\ last.result.kind = "Err"

\* ---------------------------------------------------------------- C4
\* C4: N calls of next() on an Incoming yield N items, each Some(Ok) or
\* Some(Err), never None, an Err not ending the iteration; each call does
\* exactly one sock_accept, on the listener's handle.
C4_IncomingNeverEnds ==
    /\ yielded = nextCalls
    /\ last.op = "next" =>
           /\ last.result.kind = "Some"
           /\ last.result.v.kind \in {"Ok", "Err"}
           /\ Cardinality({i \in DOMAIN last.calls :
                              last.calls[i].prim = "sock_accept"}) = 1
           /\ last.calls[1].prim = "sock_accept"
           /\ last.calls[1].fd = last.self.listener.fd

\* The second item of a cursor is a stream, its first was an error.
C4_Witness ==
    /\ last.op = "next"
    /\ nextCalls = 2 /\ yielded = 2 /\ yieldedErr = 1
    /\ last.result.v.kind = "Ok"

\* ---------------------------------------------------------------- C5
\* C5: an IPv4 address (A, P) serialised as connect hands it to the host (4
\* bytes, declared length 4, the port) and read back as peer_addr reads those
\* bytes with address type 4 and that port is (A, P) again.
C5_RoundTrip ==
    /\ rtPc \in {"raw", "done"} =>
           rtRaw.ok /\ Len(rtRaw.buf) = 4 /\ rtRaw.size = 4
    /\ rtPc = "done" => rtOut = [kind |-> "Ok", addr |-> rtIn]

\* 255.0.10.127:65535 went through both directions.
C5_Witness ==
    /\ rtPc = "done"
    /\ rtIn.ip = <<255, 0, 10, 127>> /\ rtIn.port = 65535
    /\ rtOut.kind = "Ok"

HostTakes(op, hr) ==
    /\ hr.open = 0
    /\ IF op = "connect" THEN hr.conn = 0 ELSE hr.bind = 0 /\ hr.listen = 0

\* C7: connect and bind return the socket of the first candidate for which the
\* host calls succeeded, and an error when no candidate succeeds.
C7_FirstSuccessful ==
    last.op \in {"connect", "bind"} /\ last.arg.ok /\ AllV4(last.arg.list) =>
        LET good == {i \in DOMAIN last.arg.list : HostTakes(last.op, last.plan[i])}
        IN  IF good = {} THEN last.result.kind = "Err"
            ELSE LET w == CHOOSE i \in good : \A j \in good : i <= j
                     fd == IF last.op = "connect" THEN last.result.stream.fd
                           ELSE last.result.listener.fd
                 IN  /\ last.result.kind = "Ok"
                     /\ \E i \in DOMAIN last.calls :
                            /\ last.calls[i].prim \in {"sock_connect", "sock_bind"}
                            /\ last.calls[i].fd = fd
                            /\ last.calls[i].status = 0
                            /\ last.calls[i].a[1] = last.arg.list[w].ip
                            /\ last.calls[i].a[3] = last.arg.list[w].port

\* ---------------------------------------------------------------- C8
\* C8: for a non-empty list of IPv4 candidates bind calls sock_open, sock_bind
\* with the candidate's 4 octets and port, and sock_listen with backlog 128, in
\* that order, on one handle and nothing else; the listener holds that handle
\* and records the port passed to sock_bind.
C8_BindOrder ==
    last.op = "bind" /\ last.arg.ok /\ last.arg.list # <<>> /\ AllV4(last.arg.list) =>
        /\ Prims(last.calls) = <<"sock_open", "sock_bind", "sock_listen">>
        /\ last.calls[2].fd = last.calls[1].out
        /\ last.calls[3].fd = last.calls[1].out
        /\ last.calls[2].a = <<last.arg.list[1].ip, 4, last.arg.list[1].port>>
        /\ last.calls[3].a = <<128>>
        /\ last.result.kind = "Ok"
        /\ last.result.listener.fd = last.calls[1].out
        /\ last.result.listener.port = last.calls[2].a[3]
        /\ last.result.listener \in listeners

\* bind to 10.0.0.255:80 first of two candidates, every host call succeeding.
C8_Witness ==
    /\ last.op = "bind" /\ last.arg.ok
    /\ Len(last.arg.list) = 2 /\ AllV4(last.arg.list)
    /\ last.arg.list[1].port = 80
    /\ HostTakes("bind", last.plan[1])
    /\ last.result.kind = "Ok" /\ last.result.listener.port = 80

\* ---------------------------------------------------------------- C9
\* C9: no library call invokes sock_close, so every handle the host handed out
\* is still open; shutdown leaves the stream's handle with the caller and open;
\* when accept fails at the peer-address step the handle sock_accept returned
\* stays open and is not handed to the caller.
C9_NoRelease ==
    /\ hostOpen = 1..alloc
    /\ \A i \in DOMAIN last.calls : last.calls[i].prim # "sock_close"
    /\ last.op = "shutdown" =>
           /\ Prims(last.calls) = <<"sock_shutdown">>
           /\ last.self \in streams
           /\ last.self.fd # 0 => last.self.fd \in hostOpen
    /\ last.op = "accept" /\ last.calls[1].status = 0 /\ last.result.kind = "Err" =>
           /\ last.calls[1].out \in hostOpen
           /\ [fd |-> last.calls[1].out] \notin streams

\* The host accepted a connection and accept failed at peer_addr.
C9_Witness ==
    /\ last.op = "accept"
    /\ last.calls[1].status = 0 /\ last.calls[1].out # 0
    /\ last.result.kind = "Err"

\* --------------------------------------------------------------- C10
\* Whether every octet token and the port token of the candidate's text parse.
TokensParse(c) ==
    LET addrp == Split(to_string(c), ":")
    IN  /\ \A t \in {Split(addrp[1], ".")[i] : i \in 1..Len(Split(addrp[1], "."))} :
               ParseUnsigned(t, 255).ok
        /\ Len(addrp) >= 2
        /\ ParseUnsigned(addrp[2], 65535).ok

\* ::, ::1, ::ffff:1.2.3.4, 2001:db8::1, fe80:0:0:1::, 1:2:3:4:5:6:7:8
V6Samples ==
    {[family |-> "V6", ip |-> seg, port |-> 8080] :
        seg \in {<<0, 0, 0, 0, 0, 0, 0, 0>>,
                 <<0, 0, 0, 0, 0, 0, 0, 1>>,
                 <<0, 0, 0, 0, 0, 65535, 258, 772>>,
                 <<8193, 3512, 0, 0, 0, 0, 0, 1>>,
                 <<65152, 0, 0, 1, 0, 0, 0, 0>>,
                 <<1, 2, 3, 4, 5, 6, 7, 8>>}}

V6NeverParses == \A c \in V6Samples \cup V6Candidates : ~TokensParse(c)

\* The candidates with a token that does not parse.
Unparseable == {c \in Candidates : ~TokensParse(c)}

====
